---- MODULE Spec2Model ----
(***************************************************************************)
(* Model of the analysis pipeline of fundamental-agents:                   *)
(*   - the job/report tables and the three crud functions that write them  *)
(*   - POST /api/v1/analysis/ (start_analysis) and the background task     *)
(*   - Orchestrator.run_analysis, one action per call that can raise       *)
(*   - the boundary behaviour (result / exception) of the engines          *)
(***************************************************************************)
EXTENDS Integers, Sequences, FiniteSets, TLC

\* ------------------------------------------------------------------------
\* Python values: None, a number, a string.  A dict is a function from the
\* keys it holds to such values; a missing key is a key outside its domain.
\* ------------------------------------------------------------------------
NoneV == [k |-> "none", v |-> 0]

Num(n) == [k |-> "num", v |-> n]

Str == [k |-> "str", v |-> 1]

\* None or one of the numbers of S
OrNone(S) == {NoneV} \cup {Num(x) : x \in S}

EmptyDict == [x \in {} |-> NoneV]

\* dict.get(key)
Get(d, key) == IF key \in DOMAIN d THEN d[key] ELSE NoneV

\* dict.get(key, default)
GetD(d, key, dflt) == IF key \in DOMAIN d THEN d[key] ELSE dflt

\* bool(x) of a value
Truthy(x) == x.k = "str" \/ (x.k = "num" /\ x.v # 0)

IsNone(x) == x.k = "none"

\* isinstance(x, (int, float))
IsNumber(x) == x.k = "num"

\* a or b
PyOr(a, b) == IF Truthy(a) THEN a ELSE b

Min(a, b) == IF a <= b THEN a ELSE b

Max(a, b) == IF a >= b THEN a ELSE b

\* ------------------------------------------------------------------------
\* Exact rationals <<n, d>> with d > 0, for the rates of the DCF engine.
\* ------------------------------------------------------------------------
Abs(n) == IF n < 0 THEN -n ELSE n

RECURSIVE GCD(_, _)
GCD(a, b) == IF b = 0 THEN a ELSE GCD(b, a % b)

Rat(n, d) ==
    LET g == GCD(Abs(n), Abs(d))
        s == IF d < 0 THEN -1 ELSE 1
    IN  <<(s * n) \div g, (s * d) \div g>>

\* sums over the least common denominator
RAdd(a, b) ==
    LET g == GCD(a[2], b[2])
    IN  Rat(a[1] * (b[2] \div g) + b[1] * (a[2] \div g), (a[2] \div g) * b[2])

RSub(a, b) == RAdd(a, <<-b[1], b[2]>>)

RMul(a, b) == Rat(a[1] * b[1], a[2] * b[2])

RLeq(a, b) == a[1] * b[2] <= b[1] * a[2]

RDiv(a, b) ==
    LET g == GCD(a[2], b[2])
    IN  Rat(a[1] * (b[2] \div g), (a[2] \div g) * b[1])

\* rs[lo] + ... + rs[hi], by halves
RECURSIVE RSumRange(_, _, _)
RSumRange(rs, lo, hi) ==
    IF lo > hi THEN <<0, 1>>
    ELSE IF lo = hi THEN rs[lo]
    ELSE LET mid == (lo + hi) \div 2
         IN  RAdd(RSumRange(rs, lo, mid), RSumRange(rs, mid + 1, hi))

\* sum(rs)
RSum(rs) == RSumRange(rs, 1, Len(rs))

\* the largest of a non-empty set of rationals
RMax(S) == CHOOSE x \in S : \A y \in S : RLeq(y, x)

\* the k-th smallest element of a set of integers
Kth(S, k) == CHOOSE i \in S : Cardinality({j \in S : j < i}) = k - 1

\* [xs[i] for i in range(len(xs)) if i in keep]
Filtered(xs, keep) == [k \in 1..Cardinality(keep) |-> xs[Kth(keep, k)]]

\* list(reversed(xs))
Reversed(xs) == [i \in 1..Len(xs) |-> xs[Len(xs) + 1 - i]]

\* <<q, r>> with x * 10^digits = q + r / x[2], 0 <= r < x[2], for x >= 0:
\* long division, one decimal digit at a time
RECURSIVE FloorScaled(_, _)
FloorScaled(x, digits) ==
    IF digits = 0 THEN <<x[1] \div x[2], x[1] % x[2]>>
    ELSE LET p == FloorScaled(x, digits - 1)
         IN  <<p[1] * 10 + (p[2] * 10) \div x[2], (p[2] * 10) % x[2]>>

\* round(x, digits) of x >= 0 in units of 10^-digits, ties to even
RoundScaled(x, digits) ==
    LET p == FloorScaled(x, digits)
    IN  IF 2 * p[2] > x[2] \/ (2 * p[2] = x[2] /\ p[1] % 2 = 1) THEN p[1] + 1
        ELSE p[1]

\* round(x, digits) of any x in units of 10^-digits
RoundSigned(x, digits) ==
    IF x[1] < 0 THEN -RoundScaled(<<-x[1], x[2]>>, digits) ELSE RoundScaled(x, digits)

\* the largest s in lo..hi with s * s <= q
RECURSIVE ISqrtIn(_, _, _)
ISqrtIn(q, lo, hi) ==
    IF lo = hi THEN lo
    ELSE LET mid == (lo + hi + 1) \div 2
         IN  IF mid * mid <= q THEN ISqrtIn(q, mid, hi) ELSE ISqrtIn(q, lo, mid - 1)

\* round(math.sqrt(x), 4) of x >= 0 in units of 10^-4
RoundSqrt4(x) ==
    LET p == FloorScaled(x, 8)
        s == ISqrtIn(p[1], 0, Min(p[1], 46340))
        \* sqrt(x) * 10^4 >= s + 1/2  iff  x * 10^8 >= s^2 + s + 1/4
    IN  IF p[1] > s * s + s \/ (p[1] = s * s + s /\ 4 * p[2] >= x[2]) THEN s + 1
        ELSE s

\* round(math.sqrt(x), 2) of x >= 0 in units of 10^-2
RoundSqrt2(x) ==
    LET p == FloorScaled(x, 4)
        s == ISqrtIn(p[1], 0, Min(p[1], 46340))
        \* sqrt(x) * 10^2 >= s + 1/2  iff  x * 10^4 >= s^2 + s + 1/4
    IN  IF p[1] > s * s + s \/ (p[1] = s * s + s /\ 4 * p[2] >= x[2]) THEN s + 1
        ELSE s

\* ------------------------------------------------------------------------
\* RawDataset, as DataGatheringAgent.run returns it.  profile is None or a
\* dict; the four collections are sequences of dicts, newest first.
\* ------------------------------------------------------------------------
NoProfile == [k |-> "none", d |-> EmptyDict]

Profile(d) == [k |-> "dict", d |-> d]

MkRaw(profile, prices, income, balance, cash_flow) ==
    [profile |-> profile, prices |-> prices, income_statement |-> income,
     balance_sheet |-> balance, cash_flow |-> cash_flow]

\* raw_data.get("profile") or {}
ProfileOrEmpty(raw) == IF raw.profile.k = "dict" THEN raw.profile.d ELSE EmptyDict

\* not raw_data.get("profile")
ProfileMissing(raw) == raw.profile.k = "none" \/ DOMAIN raw.profile.d = {}

\* (lst or [{}])[0]
FirstOrEmpty(lst) == IF Len(lst) > 0 THEN lst[1] ELSE EmptyDict

\* prices[0].get("close") if prices else None
CurrentPrice(raw) == IF Len(raw.prices) > 0 THEN Get(raw.prices[1], "close") ELSE NoneV

\* ------------------------------------------------------------------------
\* ValuationAgent
\* ------------------------------------------------------------------------
\* Numbers are integers: money amounts in units, beta in tenths (a beta of
\* 1.2 is held as 12).
DEFAULT_RISK_FREE_RATE == <<4, 100>>

DEFAULT_MARKET_RETURN == <<8, 100>>

DEFAULT_PERPETUAL_GROWTH_RATE == <<25, 1000>>

DEFAULT_TAX_RATE == <<21, 100>>

WaccNone == [k |-> "none", r |-> <<0, 1>>]

calculate_wacc(raw) ==
    LET profile == ProfileOrEmpty(raw)
        beta == Get(profile, "beta")
        market_cap == PyOr(Get(profile, "marketCap"), Get(profile, "mktCap"))
        balance_sheet == FirstOrEmpty(raw.balance_sheet)
        income_statement == FirstOrEmpty(raw.income_statement)
        total_debt == Get(balance_sheet, "totalDebt")
        interest_expense == Get(income_statement, "interestExpense")
        income_before_tax == Get(income_statement, "incomeBeforeTax")
    IN  IF ~(Truthy(beta) /\ Truthy(market_cap)
             /\ ~IsNone(total_debt) /\ ~IsNone(interest_expense))
        THEN WaccNone
        ELSE
        LET cost_of_equity ==
                RAdd(DEFAULT_RISK_FREE_RATE,
                     RMul(Rat(beta.v, 10),
                          RSub(DEFAULT_MARKET_RETURN, DEFAULT_RISK_FREE_RATE)))
            tax_expense == PyOr(GetD(income_statement, "incomeTaxExpense", Num(0)), Num(0))
            effective_tax_rate ==
                IF Truthy(income_before_tax)
                THEN Rat(tax_expense.v, income_before_tax.v)
                ELSE DEFAULT_TAX_RATE
            cost_of_debt ==
                IF Truthy(total_debt) THEN Rat(interest_expense.v, total_debt.v)
                ELSE <<0, 1>>
            after_tax_cost_of_debt ==
                RMul(cost_of_debt, RSub(<<1, 1>>, effective_tax_rate))
            total_capital == market_cap.v + total_debt.v
        IN  IF total_capital = 0 THEN WaccNone
            ELSE [k |-> "rat",
                  r |-> RAdd(RMul(Rat(market_cap.v, total_capital), cost_of_equity),
                             RMul(Rat(total_debt.v, total_capital),
                                  after_tax_cost_of_debt))]

\* Whether _project_free_cash_flow returns a projection: cash_flow_data[0]
\* exists (IndexError is caught) and its freeCashFlow is truthy.
project_free_cash_flow(cash_flow_data) ==
    IF Len(cash_flow_data) = 0 THEN [ok |-> FALSE, latest_fcf |-> NoneV]
    ELSE LET latest_fcf == Get(cash_flow_data[1], "freeCashFlow")
         IN  IF ~Truthy(latest_fcf) THEN [ok |-> FALSE, latest_fcf |-> NoneV]
             ELSE [ok |-> TRUE, latest_fcf |-> latest_fcf]

\* shares outstanding: profile first, then the latest income statement
shares_outstanding(raw) ==
    LET s == Get(ProfileOrEmpty(raw), "sharesOutstanding")
    IN  IF Truthy(s) THEN s
        ELSE IF Len(raw.income_statement) > 0
             THEN Get(raw.income_statement[1], "weightedAverageShsOut")
             ELSE s

\* the terminal value of lines 147-150 was not computed
NoTerminal == [k |-> "none", r |-> <<0, 1>>]

\* the guard of line 136 with < in place of <=
wacc_below_growth(wacc) == ~RLeq(DEFAULT_PERPETUAL_GROWTH_RATE, wacc)

\* wacc <= self.perpetual_growth_rate
wacc_at_most_growth(wacc) == RLeq(wacc, DEFAULT_PERPETUAL_GROWTH_RATE)

\* a failure return that also carries the wacc computed so far
ValuationFailure_partial(msg) ==
    [raised |-> FALSE, defined |-> FALSE, error |-> msg,
     has_wacc |-> TRUE, has_latest_fcf |-> FALSE, terminal |-> NoTerminal]

\* {"dcf_intrinsic_value_per_share": None, "error": msg}
ValuationFailure(msg) ==
    [raised |-> FALSE, defined |-> FALSE, error |-> msg,
     has_wacc |-> FALSE, has_latest_fcf |-> FALSE, terminal |-> NoTerminal]

\* ValuationAgent.run: which of its five returns is taken, or the
\* ZeroDivisionError of the terminal value.  The intrinsic value itself (a
\* quotient of fifth powers) is not computed here; `terminal` records the
\* denominator wacc - g of the terminal value once lines 147-150 have run.
ValuationRun(raw) ==
    LET wacc == calculate_wacc(raw)
        fcf == project_free_cash_flow(raw.cash_flow)
        terminal == [k |-> "rat", r |-> RSub(wacc.r, DEFAULT_PERPETUAL_GROWTH_RATE)]
    IN  IF wacc.k = "none" THEN ValuationFailure("Could not calculate WACC.")
        ELSE IF ~fcf.ok THEN ValuationFailure("Could not project Free Cash Flow.")
        ELSE IF wacc_at_most_growth(wacc.r)
        THEN ValuationFailure("WACC is less than or equal to perpetual growth rate.")
        ELSE IF terminal.r[1] = 0
        THEN [raised |-> TRUE, defined |-> FALSE, error |-> "",
              has_wacc |-> FALSE, has_latest_fcf |-> FALSE, terminal |-> terminal]
        ELSE IF ~Truthy(shares_outstanding(raw))
        THEN [ValuationFailure("Shares outstanding not available.")
                 EXCEPT !.terminal = terminal]
        ELSE [raised |-> FALSE, defined |-> TRUE, error |-> "",
              has_wacc |-> TRUE, has_latest_fcf |-> TRUE, terminal |-> terminal]

\* ------------------------------------------------------------------------
\* TechnicalAnalysisAgent
\* ------------------------------------------------------------------------
ATR_PERIOD == 14

\* closes = [p["close"] for p in prices if p.get("close")]
Closes(prices) ==
    LET kept == Filtered(prices, {i \in 1..Len(prices) : Truthy(Get(prices[i], "close"))})
    IN  [k \in 1..Len(kept) |-> kept[k]["close"]]

BB_PERIOD == 20

BB_NUM_STD == 2

\* _sma(values, period): None, or the exact mean of the first period values
sma(values, period) ==
    IF Len(values) < period THEN NoneV
    ELSE Num(RDiv(RSumRange([i \in 1..period |-> <<values[i], 1>>], 1, period),
                  <<period, 1>>))

\* round(bandwidth, 2) if bandwidth else None, in hundredths: a bandwidth of
\* 0.0 is false
bb_bandwidth(bandwidth_defined, bandwidth_squared) ==
    IF bandwidth_defined /\ bandwidth_squared[1] # 0
    THEN Num(RoundSqrt2(bandwidth_squared)) ELSE NoneV

\* compute_bollinger_bands(closes) with the default period and num_std, for
\* integer closes, newest first; the bands in hundredths.  100 * middle is
\* an integer and num_std * std_dev is the root of num_std^2 * variance, so
\* round(middle +- num_std * std_dev, 2) is 100 * middle +- the rounded root.
\* bandwidth = (upper - lower) / middle * 100 is the root of
\* (2 * num_std * 100)^2 * variance / middle^2.
compute_bollinger_bands(closes) ==
    IF Len(closes) < BB_PERIOD
    THEN [bb_upper |-> NoneV, bb_middle |-> NoneV, bb_lower |-> NoneV,
          bb_bandwidth |-> NoneV]
    ELSE LET window == [i \in 1..BB_PERIOD |-> <<closes[i], 1>>]
             middle == RDiv(RSum(window), <<BB_PERIOD, 1>>)
             squares == [i \in 1..BB_PERIOD |->
                            RMul(RSub(window[i], middle), RSub(window[i], middle))]
             variance == RDiv(RSum(squares), <<BB_PERIOD, 1>>)
             spread == RoundSqrt2(RMul(<<BB_NUM_STD * BB_NUM_STD, 1>>, variance))
             middle100 == FloorScaled(middle, 2)[1]
             factor == (2 * BB_NUM_STD * 100) * (2 * BB_NUM_STD * 100)
         IN  [bb_upper |-> Num(middle100 + spread),
              bb_middle |-> Num(middle100),
              bb_lower |-> Num(middle100 - spread),
              bb_bandwidth |->
                  IF middle[1] = 0 THEN bb_bandwidth(FALSE, <<0, 1>>)
                  ELSE bb_bandwidth(TRUE,
                           RMul(<<factor, 1>>, RDiv(variance, RMul(middle, middle))))]

RSI_PERIOD == 14

\* the running average of compute_rsi after xs[1..k], k >= RSI_PERIOD: the
\* plain mean of the first RSI_PERIOD values, then Wilder smoothing
RECURSIVE WilderAverage(_, _)
WilderAverage(xs, k) ==
    IF k = RSI_PERIOD
    THEN RDiv(RSumRange(xs, 1, RSI_PERIOD), <<RSI_PERIOD, 1>>)
    ELSE RDiv(RAdd(RMul(WilderAverage(xs, k - 1), <<RSI_PERIOD - 1, 1>>), xs[k]),
              <<RSI_PERIOD, 1>>)

\* the last lines of compute_rsi with gain and loss in each other's place
rsi_value_swapped(avg_gain, avg_loss) ==
    IF avg_gain[1] = 0 THEN Num(10000)
    ELSE LET rs == RDiv(avg_loss, avg_gain)
         IN  Num(RoundScaled(RSub(<<100, 1>>, RDiv(<<100, 1>>, RAdd(<<1, 1>>, rs))), 2))

\* if avg_loss == 0: return 100.0; rs = avg_gain / avg_loss;
\* round(100 - (100 / (1 + rs)), 2), in hundredths
rsi_value(avg_gain, avg_loss) ==
    IF avg_loss[1] = 0 THEN Num(10000)
    ELSE LET rs == RDiv(avg_gain, avg_loss)
         IN  Num(RoundScaled(RSub(<<100, 1>>, RDiv(<<100, 1>>, RAdd(<<1, 1>>, rs))), 2))

\* compute_rsi(closes) with the default period, closes newest first, in
\* hundredths; the averages are exact where the code's are floats
compute_rsi(closes) ==
    IF Len(closes) < RSI_PERIOD + 1 THEN NoneV
    ELSE LET n == Min(Len(closes), RSI_PERIOD * 3 + 1)
             \* ordered = reversed(closes[:n])
             ordered == [i \in 1..n |-> closes[n + 1 - i]]
             delta(i) == ordered[i + 1] - ordered[i]
             gains == [i \in 1..(n - 1) |-> <<IF delta(i) > 0 THEN delta(i) ELSE 0, 1>>]
             losses == [i \in 1..(n - 1) |-> <<IF delta(i) < 0 THEN -delta(i) ELSE 0, 1>>]
         IN  IF Len(gains) < RSI_PERIOD THEN NoneV
             ELSE rsi_value(WilderAverage(gains, Len(gains)),
                            WilderAverage(losses, Len(losses)))

\* compute_atr: "none" (too few records), "raise" (TypeError: a None operand
\* of high - low or of high/low - prev_close), or "num".
compute_atr(prices) ==
    IF Len(prices) < ATR_PERIOD + 1 THEN "none"
    ELSE LET n == Min(Len(prices), ATR_PERIOD * 2 + 1)
             \* ordered = reversed(prices[:n]); ordered[i] is prices[n + 1 - i]
             ordered(i) == prices[n + 1 - i]
         IN  IF \E i \in 2..n :
                    \/ IsNone(GetD(ordered(i), "high", Num(0)))
                    \/ IsNone(GetD(ordered(i), "low", Num(0)))
                    \/ IsNone(GetD(ordered(i - 1), "close", Num(0)))
             THEN "raise"
             ELSE "num"

\* TechnicalAnalysisAgent.run: the error marker, an exception out of
\* compute_atr, or a full result.
TechnicalRun(raw) ==
    IF Len(raw.prices) = 0
    THEN [raised |-> FALSE, error |-> TRUE, atr |-> "none"]
    ELSE LET atr == compute_atr(raw.prices)
         IN  [raised |-> atr = "raise", error |-> FALSE, atr |-> atr]

\* ------------------------------------------------------------------------
\* RiskAssessmentAgent
\* ------------------------------------------------------------------------
MIN_RISK_CLOSES == 30

TRADING_DAYS_PER_YEAR == 252

MIN_VOLATILITY_RETURNS == 20

MIN_DRAWDOWN_CLOSES == 5

\* The numbers of this engine are integers: closes in units, annual_vol in
\* units of 10^-4 (what round(x, 4) keeps), max_dd_pct in units of 10^-2
\* percent (what round(x, 2) keeps), beta in tenths.

\* the values of a list of closes
CloseValues(closes) == [i \in 1..Len(closes) |-> closes[i].v]

\* _daily_returns: chronological, a return after a close of 0 is skipped
daily_returns(closes) ==
    LET ordered == Reversed(closes)
        kept == {i \in 2..Len(ordered) : ordered[i - 1] # 0}
    IN  [k \in 1..Cardinality(kept) |->
            LET i == Kth(kept, k) IN Rat(ordered[i] - ordered[i - 1], ordered[i - 1])]

\* _mean
mean(values) == IF Len(values) = 0 THEN <<0, 1>> ELSE RDiv(RSum(values), <<Len(values), 1>>)

\* _std squared: the sample variance
variance(values) ==
    IF Len(values) < 2 THEN <<0, 1>>
    ELSE LET m == mean(values)
             sq == [i \in 1..Len(values) |->
                        RMul(RSub(values[i], m), RSub(values[i], m))]
         IN  RDiv(RSum(sq), <<Len(values) - 1, 1>>)

\* compute_volatility: annual_volatility = round(std * sqrt(252), 4)
compute_volatility(returns) ==
    IF Len(returns) < MIN_VOLATILITY_RETURNS THEN NoneV
    ELSE Num(RoundSqrt4(RMul(<<TRADING_DAYS_PER_YEAR, 1>>, variance(returns))))

MIN_SHARPE_RETURNS == 60

RISK_FREE_RATE_ANNUAL == <<4, 100>>

\* daily_rf = RISK_FREE_RATE_ANNUAL / TRADING_DAYS_PER_YEAR
daily_rf == RDiv(RISK_FREE_RATE_ANNUAL, <<TRADING_DAYS_PER_YEAR, 1>>)

\* compute_sharpe_ratio without its std_daily == 0 test
sharpe_ratio_is_none_short(returns) == Len(returns) < MIN_SHARPE_RETURNS

\* whether compute_sharpe_ratio returns None: under 60 returns, or a
\* standard deviation of 0
sharpe_ratio_is_none(returns) ==
    \/ Len(returns) < MIN_SHARPE_RETURNS
    \/ variance(returns)[1] = 0

\* whether compute_sortino_ratio returns None: under 60 returns, no return
\* below daily_rf, or a downside deviation of 0 (_std of one value is 0.0)
sortino_ratio_is_none(returns) ==
    \/ Len(returns) < MIN_SHARPE_RETURNS
    \/ LET downside == Filtered(returns, {i \in 1..Len(returns) :
                                             /\ RLeq(returns[i], daily_rf)
                                             /\ ~RLeq(daily_rf, returns[i])})
       IN  Len(downside) = 0 \/ variance(downside)[1] = 0

\* the largest of a non-empty set of integers
MaxOf(S) == CHOOSE x \in S : \A y \in S : y <= x

\* compute_max_drawdown: max_drawdown = round(max_dd, 4) and
\* max_drawdown_pct = round(max_dd * 100, 2), both None under 5 closes.
\* When the loop reaches ordered[i], peak is the largest of ordered[0..i];
\* dd = (peak - price) / peak raises ZeroDivisionError when that peak is 0;
\* max_dd starts at 0.0 and is the largest dd seen.
compute_max_drawdown(closes) ==
    IF Len(closes) < MIN_DRAWDOWN_CLOSES
    THEN [raised |-> FALSE, max_drawdown |-> NoneV, max_drawdown_pct |-> NoneV]
    ELSE LET ordered == Reversed(closes)
             peak == [i \in 1..Len(ordered) |-> MaxOf({ordered[k] : k \in 1..i})]
         IN  IF \E i \in 2..Len(ordered) : peak[i] = 0
             THEN [raised |-> TRUE, max_drawdown |-> NoneV, max_drawdown_pct |-> NoneV]
             ELSE LET max_dd ==
                          RMax({<<0, 1>>} \cup
                               {Rat(peak[i] - ordered[i], peak[i]) : i \in 2..Len(ordered)})
                  IN  [raised |-> FALSE,
                       max_drawdown |-> Num(RoundScaled(max_dd, 4)),
                       max_drawdown_pct |-> Num(RoundScaled(RMul(max_dd, <<100, 1>>), 2))]

\* compute_beta: the profile's beta, None without a profile or a beta
compute_beta(profile) ==
    IF profile.k = "dict" /\ DOMAIN profile.d # {} THEN Get(profile.d, "beta")
    ELSE NoneV

\* score of one metric: the first threshold the value exceeds
ScoreOf(x, high, mid, low) ==
    IF IsNone(x) THEN 0
    ELSE IF x.v > high THEN 3
    ELSE IF x.v > mid THEN 2
    ELSE IF x.v > low THEN 1
    ELSE 0

\* _risk_rating with the scores of the two upper volatility bands exchanged
risk_rating_swapped(annual_vol, max_dd_pct, beta) ==
    LET vs == ScoreOf(annual_vol, 5000, 3000, 1500)
        score == (IF vs = 3 THEN 2 ELSE IF vs = 2 THEN 3 ELSE vs)
                 + ScoreOf(max_dd_pct, 5000, 3000, 1500)
                 + (IF IsNone(beta) THEN 0 ELSE IF beta.v > 15 THEN 2
                    ELSE IF beta.v > 10 THEN 1 ELSE 0)
    IN  IF score >= 6 THEN "very_high"
        ELSE IF score >= 4 THEN "high"
        ELSE IF score >= 2 THEN "moderate"
        ELSE "low"

\* _risk_rating
risk_rating(annual_vol, max_dd_pct, beta) ==
    LET score == ScoreOf(annual_vol, 5000, 3000, 1500)
                 + ScoreOf(max_dd_pct, 5000, 3000, 1500)
                 + (IF IsNone(beta) THEN 0 ELSE IF beta.v > 15 THEN 2
                    ELSE IF beta.v > 10 THEN 1 ELSE 0)
    IN  IF score >= 6 THEN "very_high"
        ELSE IF score >= 4 THEN "high"
        ELSE IF score >= 2 THEN "moderate"
        ELSE "low"

\* the < 30 test of run with <= in its place
too_few_closes_upto(closes) == Len(closes) <= MIN_RISK_CLOSES

\* len(closes) < 30
too_few_closes(closes) == Len(closes) < MIN_RISK_CLOSES

\* RiskAssessmentAgent.run: fewer than 30 truthy closes give the error marker
\* with risk_rating "unknown".  Below that guard every close is non-zero, so
\* no return is skipped and the drawdown's peak is never 0: nothing is
\* raised.  Sharpe, Sortino, VaR and the risk-adjusted return do not enter
\* the rating; of the Sharpe and Sortino ratios the result keeps whether
\* they are None (the marker has neither key).
RiskRun(raw) ==
    LET closes == CloseValues(Closes(raw.prices))
    IN  IF too_few_closes(closes)
        THEN [raised |-> FALSE, error |-> TRUE, risk_rating |-> "unknown",
              annual_volatility |-> NoneV, max_drawdown_pct |-> NoneV,
              beta |-> NoneV, sharpe_none |-> TRUE, sortino_none |-> TRUE]
        ELSE LET returns == daily_returns(closes)
                 volatility == compute_volatility(returns)
                 max_dd == compute_max_drawdown(closes)
                 beta == compute_beta(raw.profile)
             IN  [raised |-> max_dd.raised, error |-> FALSE,
                  risk_rating |->
                      risk_rating(volatility, max_dd.max_drawdown_pct, beta),
                  annual_volatility |-> volatility,
                  max_drawdown_pct |-> max_dd.max_drawdown_pct,
                  beta |-> beta,
                  sharpe_none |-> sharpe_ratio_is_none(returns),
                  sortino_none |-> sortino_ratio_is_none(returns)]

\* ------------------------------------------------------------------------
\* FinancialMetricsAgent and NewsSentimentAgent: every lookup goes through
\* _get_latest/_get_prev and every quotient through _safe_divide, so run
\* returns its groups whatever is missing.
\* ------------------------------------------------------------------------
\* The numbers of the metrics are exact rationals where the code's are
\* floats.  float(x) of a number of the raw data
Float(x) == IF IsNumber(x) THEN Num(<<x.v, 1>>) ELSE x

\* _safe_divide without its denominator == 0 test: the division raises
\* ZeroDivisionError, which the except clause does not catch
safe_divide_no_zero_test(numerator, denominator) ==
    IF IsNone(numerator) \/ IsNone(denominator) THEN NoneV
    ELSE IF ~IsNumber(numerator) \/ ~IsNumber(denominator) THEN NoneV
    ELSE IF denominator.v[1] = 0 THEN [k |-> "ZeroDivisionError", v |-> 0]
    ELSE Num(RDiv(numerator.v, denominator.v))

\* _safe_divide: None for a None operand or a denominator equal to 0; the
\* ValueError of float() of a text that is no number is caught and gives
\* None; else the quotient
safe_divide(numerator, denominator) ==
    IF IsNone(numerator) \/ IsNone(denominator) THEN NoneV
    ELSE IF IsNumber(denominator) /\ denominator.v[1] = 0 THEN NoneV
    ELSE IF ~IsNumber(numerator) \/ ~IsNumber(denominator) THEN NoneV
    ELSE Num(RDiv(numerator.v, denominator.v))

\* _growth_rate dividing by previous in place of abs(previous)
growth_rate_signed(current, previous) ==
    IF IsNone(current) \/ IsNone(previous) THEN NoneV
    ELSE IF IsNumber(previous) /\ previous.v[1] = 0 THEN NoneV
    ELSE IF ~IsNumber(current) \/ ~IsNumber(previous) THEN NoneV
    ELSE Num(RDiv(RSub(current.v, previous.v), previous.v))

\* _growth_rate: None for a None operand or a previous value equal to 0,
\* else (current - previous) / abs(previous)
growth_rate(current, previous) ==
    IF IsNone(current) \/ IsNone(previous) THEN NoneV
    ELSE IF IsNumber(previous) /\ previous.v[1] = 0 THEN NoneV
    ELSE IF ~IsNumber(current) \/ ~IsNumber(previous) THEN NoneV
    ELSE Num(RDiv(RSub(current.v, previous.v),
                  <<Abs(previous.v[1]), previous.v[2]>>))

\* _get_latest: data[0].get(key), None when there is no statement
get_latest(data, key) == IF Len(data) >= 1 THEN Float(Get(data[1], key)) ELSE NoneV

\* _get_prev: data[1].get(key), None when there is no prior statement
get_prev(data, key) == IF Len(data) >= 2 THEN Float(Get(data[2], key)) ELSE NoneV

\* round(x, digits) if x else None, in units of 10^-digits
RoundedIfTruthy(x, digits) ==
    IF IsNumber(x) /\ x.v[1] # 0 THEN Num(RoundSigned(x.v, digits)) ELSE NoneV

\* _valuation_metrics: pe_ratio and peg_ratio, in hundredths, and the
\* eps_growth the PEG is estimated from.  (eps_growth * 100) if eps_growth
\* else None: a growth of 0 or None gives no denominator, a negative growth
\* gives a negative one.
valuation_metrics(raw) ==
    LET current_price == Float(CurrentPrice(raw))
        pe == safe_divide(current_price, get_latest(raw.income_statement, "eps"))
        eps_growth == growth_rate(get_latest(raw.income_statement, "eps"),
                                  get_prev(raw.income_statement, "eps"))
        peg == safe_divide(pe, IF IsNumber(eps_growth) /\ eps_growth.v[1] # 0
                               THEN Num(RMul(eps_growth.v, <<100, 1>>))
                               ELSE NoneV)
    IN  [pe_ratio |-> RoundedIfTruthy(pe, 2), peg_ratio |-> RoundedIfTruthy(peg, 2)]

DEFAULT_EFFECTIVE_TAX == <<21, 100>>

\* the rate of the NOPAT: eff_tax or 0.21, where eff_tax is
\* _safe_divide(tax_expense, income_before_tax) if income_before_tax else
\* 0.21 and tax_expense is the statement's incomeTaxExpense or 0
effective_tax_rate(income) ==
    LET raw_tax == get_latest(income, "incomeTaxExpense")
        tax_expense == IF IsNumber(raw_tax) /\ raw_tax.v[1] # 0 THEN raw_tax
                       ELSE Num(<<0, 1>>)
        income_before_tax == get_latest(income, "incomeBeforeTax")
        eff_tax == IF IsNumber(income_before_tax) /\ income_before_tax.v[1] # 0
                   THEN safe_divide(tax_expense, income_before_tax)
                   ELSE Num(DEFAULT_EFFECTIVE_TAX)
    IN  IF IsNumber(eff_tax) /\ eff_tax.v[1] # 0 THEN eff_tax.v
        ELSE DEFAULT_EFFECTIVE_TAX

\* the x or 0 of a number or None
OrZero(x) == IF IsNumber(x) THEN x.v ELSE <<0, 1>>

\* _profitability_metrics: roic = round(NOPAT / invested capital, 4) in
\* units of 10^-4, None when it is 0 or when the operating income or the
\* equity is missing
profitability_metrics(raw) ==
    LET operating_income == get_latest(raw.income_statement, "operatingIncome")
        equity == get_latest(raw.balance_sheet, "totalStockholdersEquity")
        total_debt == OrZero(get_latest(raw.balance_sheet, "totalDebt"))
        cash == OrZero(get_latest(raw.balance_sheet, "cashAndCashEquivalents"))
        nopat == IF IsNone(operating_income) THEN NoneV
                 ELSE Num(RMul(operating_income.v,
                               RSub(<<1, 1>>, effective_tax_rate(raw.income_statement))))
        invested_capital ==
            IF IsNumber(equity) /\ equity.v[1] # 0
            THEN Num(RSub(RAdd(equity.v, total_debt), cash))
            ELSE NoneV
    IN  [roic |-> RoundedIfTruthy(safe_divide(nopat, invested_capital), 4)]

\* _growth_metrics
growth_metrics(income) ==
    [revenue_growth |-> growth_rate(get_latest(income, "revenue"),
                                    get_prev(income, "revenue")),
     net_income_growth |-> growth_rate(get_latest(income, "netIncome"),
                                       get_prev(income, "netIncome")),
     eps_growth |-> growth_rate(get_latest(income, "eps"), get_prev(income, "eps"))]

\* FinancialMetricsAgent.run: the groups and their flattened metrics; of the
\* eight groups the result keeps the valuation, profitability and growth
\* metrics above
MetricsRun(raw) ==
    [raised |-> FALSE, error |-> FALSE,
     valuation |-> valuation_metrics(raw),
     profitability |-> profitability_metrics(raw),
     growth |-> growth_metrics(raw.income_statement)]

\* the loop of _ema over ordered[k..], oldest first:
\* ema = (price - ema) * multiplier + ema.  A price equal to ema leaves it
\* as it is, so the loop is taken from the next price that differs from it.
RECURSIVE ema_loop(_, _, _, _)
ema_loop(ordered, k, multiplier, e) ==
    LET moving == {i \in k..Len(ordered) : RSub(ordered[i], e)[1] # 0}
        next == Kth(moving, 1)
    IN  IF moving = {} THEN e
        ELSE ema_loop(ordered, next + 1, multiplier,
                      RAdd(RMul(RSub(ordered[next], e), multiplier), e))

\* TechnicalAnalysisAgent._ema(values, period), values newest first and
\* exact: None under period values, else the mean of the oldest period
\* values carried through every newer one
ema(values, period) ==
    IF Len(values) < period THEN NoneV
    ELSE LET kept == Min(Len(values), Max(period * 3, Len(values)))
             ordered == Reversed(SubSeq(values, 1, kept))
         IN  Num(ema_loop(ordered, period + 1, <<2, period + 1>>,
                          RDiv(RSumRange(ordered, 1, period), <<period, 1>>)))

\* macd_series of compute_macd: EMA(12) - EMA(26) of closes[i:] for each
\* offset i in range(min(35, len(closes) - 26)), newest first
macd_series(closes) ==
    LET count == Max(0, Min(35, Len(closes) - 26))
        from(i) == SubSeq(closes, i + 1, Len(closes))
        kept == {i \in 0..(count - 1) :
                    IsNumber(ema(from(i), 12)) /\ IsNumber(ema(from(i), 26))}
    IN  Filtered([j \in 1..count |->
                     RSub(ema(from(j - 1), 12).v, ema(from(j - 1), 26).v)],
                 {i + 1 : i \in kept})

\* compute_macd(closes), the closes exact and newest first, the three values
\* in units of 10^-4: round(x, 4) if x else None
compute_macd(closes) ==
    LET ema_12 == ema(closes, 12)
        ema_26 == ema(closes, 26)
        macd_line == RSub(ema_12.v, ema_26.v)
        series == macd_series(closes)
        signal_line == IF Len(series) >= 9 THEN ema(series, 9) ELSE NoneV
        histogram == IF IsNumber(signal_line)
                     THEN Num(RSub(macd_line, signal_line.v)) ELSE NoneV
    IN  IF IsNone(ema_12) \/ IsNone(ema_26)
        THEN [macd_line |-> NoneV, signal_line |-> NoneV, macd_histogram |-> NoneV]
        ELSE [macd_line |-> RoundedIfTruthy(Num(macd_line), 4),
              signal_line |-> RoundedIfTruthy(signal_line, 4),
              macd_histogram |-> RoundedIfTruthy(histogram, 4)]

SentimentRun(raw) == [raised |-> FALSE, error |-> FALSE]

\* ------------------------------------------------------------------------
\* SynthesisReportingAgent
\* ------------------------------------------------------------------------
\* the test of line 88 with `and` in place of `or`: a value that is not a
\* number reaches the arithmetic of line 95
generate_recommendation_and(current_price, dcf_defined) ==
    IF ~IsNumber(current_price) /\ ~dcf_defined THEN "insufficient"
    ELSE IF ~IsNumber(current_price) \/ ~dcf_defined THEN "TypeError"
    ELSE IF current_price.v = 0 THEN "ZeroDivisionError"
    ELSE "AttributeError"

\* _generate_recommendation up to its first threshold comparison:
\*   "insufficient"      the hold/30 return when either value is not a number
\*   "ZeroDivisionError" (dcf_value - current_price) / current_price with a
\*                       current price of 0
\*   "AttributeError"    self.STRONG_BUY_THRESHOLD: the class defines none of
\*                       the four thresholds it reads
generate_recommendation(current_price, dcf_defined) ==
    IF ~IsNumber(current_price) \/ ~dcf_defined THEN "insufficient"
    ELSE IF current_price.v = 0 THEN "ZeroDivisionError"
    ELSE "AttributeError"

\* The rationale of the return of lines 89-93
INSUFFICIENT_DATA == "Insufficient data for a conclusive valuation-based recommendation."

\* The (recommendation, rationale, confidence) that _generate_recommendation
\* returns, or the exception that leaves it.  Only the return of lines 89-93
\* is ever taken: with two numbers the call ends at line 95 or at line 98,
\* before risk_rating, rsi and trend_signals are read.
recommendation_result(current_price, dcf_value, rating, rsi, trend_signals) ==
    LET outcome == generate_recommendation(current_price, IsNumber(dcf_value))
    IN  IF outcome = "insufficient"
        THEN [raised |-> "", rec |-> "hold", rationale |-> INSUFFICIENT_DATA,
              confidence |-> 30]
        ELSE [raised |-> outcome, rec |-> "", rationale |-> "", confidence |-> 0]

\* SynthesisReportingAgent.run raises what _generate_recommendation raises;
\* the section builders only format.
SynthesisRaises(raw, valuation) ==
    generate_recommendation(CurrentPrice(raw), valuation.defined) # "insufficient"

\* ------------------------------------------------------------------------
\* Datasets the data-fetch collaborator can return
\* ------------------------------------------------------------------------
\* length of a full price history in the model (at least MIN_RISK_CLOSES)
LongLen == 30

GoodPrice == [close |-> Num(100), high |-> Num(101), low |-> Num(99)]

\* n records, all GoodPrice except record k (none when k = 0)
PriceSeries(n, k, bad) == [i \in 1..n |-> IF i = k THEN bad ELSE GoodPrice]

GoodProfile ==
    [companyName |-> Str, beta |-> Num(10), marketCap |-> Num(100),
     sharesOutstanding |-> Num(10)]

GoodIncome ==
    <<[interestExpense |-> Num(2), incomeBeforeTax |-> Num(10),
       incomeTaxExpense |-> Num(2), weightedAverageShsOut |-> Num(10)]>>

GoodBalance == <<[totalDebt |-> Num(50)]>>

GoodCashFlow == <<[freeCashFlow |-> Num(10)]>>

WithPrices(profile, prices) ==
    MkRaw(profile, prices, GoodIncome, GoodBalance, GoodCashFlow)

DGood == WithPrices(Profile(GoodProfile), PriceSeries(LongLen, 0, GoodPrice))

DNoProfile == WithPrices(NoProfile, PriceSeries(LongLen, 0, GoodPrice))

DEmptyProfile == WithPrices(Profile(EmptyDict), PriceSeries(LongLen, 0, GoodPrice))

\* a listed company with no price history and no statements
DBare == MkRaw(Profile([companyName |-> Str]), <<>>, <<>>, <<>>, <<>>)

\* the latest close is 0
DZeroPrice ==
    WithPrices(Profile(GoodProfile),
               PriceSeries(LongLen, 1, [GoodPrice EXCEPT !.close = Num(0)]))

\* one record carries "high": null
DNoneHigh ==
    WithPrices(Profile(GoodProfile),
               PriceSeries(LongLen, 2, [GoodPrice EXCEPT !.high = NoneV]))

\* prices but no statements
DNoStatements ==
    MkRaw(Profile(GoodProfile), PriceSeries(LongLen, 0, GoodPrice), <<>>, <<>>, <<>>)

Datasets ==
    {DGood, DNoProfile, DEmptyProfile, DBare, DNoStatements, DZeroPrice, DNoneHigh}

\* ------------------------------------------------------------------------
\* Tables and crud functions
\* ------------------------------------------------------------------------
MaxJobs == 2

\* requests of one user within one day
MaxPosts == 4

JobIds == 1..Max(MaxJobs, MaxPosts)

\* no row with this id in analysisjobs
NoRow == "no_row"

Statuses == {"pending", "gathering_data", "analyzing", "generating_report",
             "complete", "failed"}

Terminal == {"complete", "failed"}

\* A crud call commits and then refreshes: it returns ("ok"), raises before
\* the commit took effect, or raises after it (the refresh fails).
SinkOutcomes == {"ok", "raise_before", "raise_after"}

\* create_analysis_job: the status column after the insert of row id
create_analysis_job(st, id, o) ==
    IF o = "raise_before" THEN st ELSE [st EXCEPT ![id] = "pending"]

\* update_job_status: the status column after the call
update_job_status(st, j, s, o) ==
    IF st[j] = NoRow THEN st
    ELSE IF o = "raise_before" THEN st
    ELSE [st EXCEPT ![j] = s]

\* create_report without db.add: nothing is inserted
create_report_unsaved(rp, j, o) == rp

\* create_report: the number of report rows per job after the call; job_id
\* is unique, so a second insert raises at the commit
create_report(rp, j, o) ==
    IF o = "raise_before" \/ rp[j] > 0 THEN rp
    ELSE [rp EXCEPT ![j] = @ + 1]

CreateReportRaises(rp, j, o) == o # "ok" \/ rp[j] > 0

\* the task added twice
add_task_twice(t, j) == [t EXCEPT ![j] = @ + 2]

\* background_tasks.add_task(run_analysis_background, job.id, ticker)
add_task(t, j) == [t EXCEPT ![j] = @ + 1]

Engines == <<"metrics", "technical", "risk", "sentiment", "valuation">>

VARIABLES
    status,      \* analysisjobs.status per job id, NoRow before creation
    reports,     \* number of reports rows per job_id
    tasks,       \* background tasks queued per job id
    runs,        \* run_analysis_background invocations started per job id
    accepted,    \* job ids start_analysis answered 202 for
    nextId,      \* next primary key of analysisjobs
    pc,          \* position of the job's background task
    raw,         \* <<raw_data>> once the fetch returned, else <<>>
    results,     \* engine name -> returned result, per job
    invoked,     \* engines and synthesis in the order they were called
    hist,        \* statuses committed for the job, in order
    sinkFailed,  \* a crud call of the run has raised
    engIn,       \* dataset under test (engine specification)
    engOut,      \* engine name -> result (engine specification)
    args,        \* arguments of the function under test (function specifications)
    ret          \* <<its return value>> once called, else <<>>

jobVars == <<status, reports, tasks, runs, accepted, nextId, pc, raw, results,
             invoked, hist, sinkFailed>>

engVars == <<engIn, engOut>>

fnVars == <<args, ret>>

vars == <<status, reports, tasks, runs, accepted, nextId, pc, raw, results,
          invoked, hist, sinkFailed, engIn, engOut, args, ret>>

NoResults == [x \in {} |-> NoneV]

JobInit ==
    /\ status = [j \in JobIds |-> NoRow]
    /\ reports = [j \in JobIds |-> 0]
    /\ tasks = [j \in JobIds |-> 0]
    /\ runs = [j \in JobIds |-> 0]
    /\ accepted = {}
    /\ nextId = 1
    /\ pc = [j \in JobIds |-> "idle"]
    /\ raw = [j \in JobIds |-> <<>>]
    /\ results = [j \in JobIds |-> NoResults]
    /\ invoked = [j \in JobIds |-> <<>>]
    /\ hist = [j \in JobIds |-> <<>>]
    /\ sinkFailed = [j \in JobIds |-> FALSE]

\* no function under test
NoArgs == [x \in {} |-> NoneV]

FnIdle ==
    /\ args = NoArgs
    /\ ret = <<>>

EngineIdle ==
    /\ engIn = DBare
    /\ engOut = NoResults

Init ==
    /\ JobInit
    /\ EngineIdle
    /\ FnIdle

\* ------------------------------------------------------------------------
\* POST /api/v1/analysis/
\* ------------------------------------------------------------------------
\* the handler while at most `last` rows were inserted; it reads neither
\* the user's subscription_status nor the jobs the user already has
start_analysis_up_to(last) ==
    /\ nextId <= last
    /\ \E o \in SinkOutcomes :
        /\ status' = create_analysis_job(status, nextId, o)
        /\ hist' = IF o = "raise_before" THEN hist
                   ELSE [hist EXCEPT ![nextId] = <<"pending">>]
        /\ nextId' = IF o = "raise_before" THEN nextId ELSE nextId + 1
        /\ tasks' = IF o = "ok" THEN add_task(tasks, nextId) ELSE tasks
        /\ accepted' = IF o = "ok" THEN accepted \cup {nextId} ELSE accepted
    /\ UNCHANGED <<reports, runs, pc, raw, results, invoked, sinkFailed>>
    /\ UNCHANGED engVars
    /\ UNCHANGED fnVars

start_analysis == start_analysis_up_to(MaxJobs)

\* ------------------------------------------------------------------------
\* run_analysis_background: the task starts, looks the job up and builds
\* the Orchestrator; either may raise into the task's own handler.
\* ------------------------------------------------------------------------
run_analysis_background(j) ==
    /\ tasks[j] > 0
    /\ pc[j] \in {"idle", "done"}
    /\ tasks' = [tasks EXCEPT ![j] = @ - 1]
    /\ runs' = [runs EXCEPT ![j] = @ + 1]
    /\ \E o \in {"ok", "raise"} :
        pc' = [pc EXCEPT ![j] =
                 IF o = "raise" THEN "bg_except"
                 ELSE IF status[j] = NoRow THEN "done"
                 ELSE "update_gathering"]
    /\ UNCHANGED <<status, reports, accepted, nextId, raw, results, invoked,
                   hist, sinkFailed>>
    /\ UNCHANGED engVars
    /\ UNCHANGED fnVars

\* A call of crud.update_job_status(db, job_id=j, status=s) with outcome o
SetStatus(j, s, o) ==
    /\ status' = update_job_status(status, j, s, o)
    /\ hist' = [hist EXCEPT ![j] =
                  IF status'[j] # status[j] THEN Append(@, status'[j]) ELSE @]
    /\ sinkFailed' = [sinkFailed EXCEPT ![j] = @ \/ o # "ok"]

\* A status update at line `at`, followed by `next` unless it raises
StatusStep(j, at, s, next, onRaise) ==
    /\ pc[j] = at
    /\ \E o \in SinkOutcomes :
        /\ SetStatus(j, s, o)
        /\ pc' = [pc EXCEPT ![j] = IF o = "ok" THEN next ELSE onRaise]
    /\ UNCHANGED <<reports, tasks, runs, accepted, nextId, raw, results, invoked>>
    /\ UNCHANGED engVars
    /\ UNCHANGED fnVars

\* ── Step 1 ──
UpdateGathering(j) ==
    /\ pc[j] = "update_gathering"
    /\ StatusStep(j, "update_gathering", "gathering_data", "fetch", "except")

\* raw_data = self.data_agent.run(ticker), then the profile check
Fetch(j) ==
    /\ pc[j] = "fetch"
    /\ \/ /\ pc' = [pc EXCEPT ![j] = "except"]
          /\ UNCHANGED raw
       \/ \E d \in Datasets :
            /\ raw' = [raw EXCEPT ![j] = <<d>>]
            /\ pc' = [pc EXCEPT ![j] =
                        IF ProfileMissing(d) THEN "except" ELSE "update_analyzing"]
    /\ UNCHANGED <<status, reports, tasks, runs, accepted, nextId, results,
                   invoked, hist, sinkFailed>>
    /\ UNCHANGED engVars
    /\ UNCHANGED fnVars

\* Step 2 with the status update moved behind the engines: the engines start
\* while the row still says gathering_data
UpdateAnalyzing_late(j) ==
    /\ pc[j] = "update_analyzing"
    /\ pc' = [pc EXCEPT ![j] = "run_metrics"]
    /\ UNCHANGED <<status, reports, tasks, runs, accepted, nextId, raw, results,
                   invoked, hist, sinkFailed>>
    /\ UNCHANGED engVars
    /\ UNCHANGED fnVars

\* ── Step 2 ──
UpdateAnalyzing(j) ==
    /\ pc[j] = "update_analyzing"
    /\ StatusStep(j, "update_analyzing", "analyzing", "run_metrics", "except")

\* One engine call: the result is bound unless the engine raises
EngineStep(j, at, name, r, next) ==
    /\ pc[j] = at
    /\ invoked' = [invoked EXCEPT ![j] = Append(@, name)]
    /\ results' = [results EXCEPT ![j] = IF r.raised THEN @ ELSE (name :> r) @@ @]
    /\ pc' = [pc EXCEPT ![j] = IF r.raised THEN "except" ELSE next]
    /\ UNCHANGED <<status, reports, tasks, runs, accepted, nextId, raw, hist,
                   sinkFailed>>
    /\ UNCHANGED engVars
    /\ UNCHANGED fnVars

RunMetrics(j) ==
    /\ pc[j] = "run_metrics"
    /\ EngineStep(j, "run_metrics", "metrics", MetricsRun(raw[j][1]), "run_technical")

RunTechnical(j) ==
    /\ pc[j] = "run_technical"
    /\ EngineStep(j, "run_technical", "technical", TechnicalRun(raw[j][1]), "run_risk")

RunRisk(j) ==
    /\ pc[j] = "run_risk"
    /\ EngineStep(j, "run_risk", "risk", RiskRun(raw[j][1]), "run_sentiment")

RunSentiment(j) ==
    /\ pc[j] = "run_sentiment"
    /\ EngineStep(j, "run_sentiment", "sentiment", SentimentRun(raw[j][1]),
                  "run_valuation")

RunValuation(j) ==
    /\ pc[j] = "run_valuation"
    /\ EngineStep(j, "run_valuation", "valuation", ValuationRun(raw[j][1]),
                  "update_generating")

\* ── Step 3 ──
UpdateGenerating(j) ==
    /\ pc[j] = "update_generating"
    /\ StatusStep(j, "update_generating", "generating_report", "synthesis", "except")

Synthesize(j) ==
    /\ pc[j] = "synthesis"
    /\ invoked' = [invoked EXCEPT ![j] = Append(@, "synthesis")]
    /\ pc' = [pc EXCEPT ![j] =
                IF SynthesisRaises(raw[j][1], results[j]["valuation"])
                THEN "except" ELSE "build_chart"]
    /\ UNCHANGED <<status, reports, tasks, runs, accepted, nextId, raw, results,
                   hist, sinkFailed>>
    /\ UNCHANGED engVars
    /\ UNCHANGED fnVars

\* ── Step 4 ── _build_chart_data only reads with .get and guards p["date"]
BuildChart(j) ==
    /\ pc[j] = "build_chart"
    /\ pc' = [pc EXCEPT ![j] = "create_report"]
    /\ UNCHANGED <<status, reports, tasks, runs, accepted, nextId, raw, results,
                   invoked, hist, sinkFailed>>
    /\ UNCHANGED engVars
    /\ UNCHANGED fnVars

\* ── Step 5 ──
CreateReport(j) ==
    /\ pc[j] = "create_report"
    /\ \E o \in SinkOutcomes :
        /\ reports' = create_report(reports, j, o)
        /\ sinkFailed' = [sinkFailed EXCEPT ![j] = @ \/ CreateReportRaises(reports, j, o)]
        /\ pc' = [pc EXCEPT ![j] =
                    IF CreateReportRaises(reports, j, o) THEN "except"
                    ELSE "update_complete"]
    /\ UNCHANGED <<status, tasks, runs, accepted, nextId, raw, results, invoked,
                   hist>>
    /\ UNCHANGED engVars
    /\ UNCHANGED fnVars

UpdateComplete(j) ==
    /\ pc[j] = "update_complete"
    /\ StatusStep(j, "update_complete", "complete", "done", "except")

\* except Exception in run_analysis: log, then update to failed; an
\* exception of that update leaves run_analysis
HandleFailure(j) ==
    /\ pc[j] = "except"
    /\ StatusStep(j, "except", "failed", "done", "bg_except")

\* except Exception in run_analysis_background: update to failed inside its
\* own try/except, which only logs; finally db.close()
BackgroundHandleFailure(j) ==
    /\ pc[j] = "bg_except"
    /\ StatusStep(j, "bg_except", "failed", "done", "done")

Next ==
    \/ start_analysis
    \/ \E j \in JobIds : run_analysis_background(j)
    \/ \E j \in JobIds : UpdateGathering(j)
    \/ \E j \in JobIds : Fetch(j)
    \/ \E j \in JobIds : UpdateAnalyzing(j)
    \/ \E j \in JobIds : RunMetrics(j)
    \/ \E j \in JobIds : RunTechnical(j)
    \/ \E j \in JobIds : RunRisk(j)
    \/ \E j \in JobIds : RunSentiment(j)
    \/ \E j \in JobIds : RunValuation(j)
    \/ \E j \in JobIds : UpdateGenerating(j)
    \/ \E j \in JobIds : Synthesize(j)
    \/ \E j \in JobIds : BuildChart(j)
    \/ \E j \in JobIds : CreateReport(j)
    \/ \E j \in JobIds : UpdateComplete(j)
    \/ \E j \in JobIds : HandleFailure(j)
    \/ \E j \in JobIds : BackgroundHandleFailure(j)

Spec == Init /\ [][Next]_vars

\* ── the requests of one free-tier user within one day and the background
\* tasks they schedule, each task up to the Orchestrator's first step ──
PostNext ==
    \/ start_analysis_up_to(MaxPosts)
    \/ \E j \in JobIds : run_analysis_background(j)
    \/ \E j \in JobIds : BackgroundHandleFailure(j)

PostSpec == Init /\ [][PostNext]_vars

\* ------------------------------------------------------------------------
\* Engine specification: each engine's run applied to a dataset whose price
\* records, statements and profile fields are missing, None or zero.
\* ------------------------------------------------------------------------
PriceLens == {0, 1, ATR_PERIOD + 1, LongLen}

\* position of the defective record (0: none)
DefectPositions == {0, 1, 2}

BadPrices ==
    {[GoodPrice EXCEPT ![f] = v] : f \in {"close", "high", "low"}, v \in {NoneV, Num(0)}}
    \cup {[f \in {"close", "high", "low"} \ {g} |-> GoodPrice[f]] : g \in {"close", "high", "low"}}

EngineProfiles ==
    {NoProfile, Profile(EmptyDict), Profile(GoodProfile),
     Profile([GoodProfile EXCEPT !.beta = NoneV]),
     Profile([GoodProfile EXCEPT !.marketCap = Num(0), !.sharesOutstanding = Num(0)])}

\* <<income_statement, balance_sheet, cash_flow>>
EngineFinancials ==
    {<<GoodIncome, GoodBalance, GoodCashFlow>>,
     <<(<<>>), (<<>>), (<<>>)>>,
     <<(<<EmptyDict>>), (<<EmptyDict>>), (<<EmptyDict>>)>>,
     <<(<<[interestExpense |-> Num(0), incomeBeforeTax |-> Num(0),
           incomeTaxExpense |-> NoneV, weightedAverageShsOut |-> Num(0)]>>),
       (<<[totalDebt |-> Num(0)]>>),
       (<<[freeCashFlow |-> Num(0)]>>)>>}

EngineDatasets ==
    {MkRaw(p, PriceSeries(n, k, bad), f[1], f[2], f[3]) :
        p \in EngineProfiles, n \in PriceLens, k \in DefectPositions,
        bad \in BadPrices, f \in EngineFinancials}

EngineInit ==
    /\ JobInit
    /\ FnIdle
    /\ engIn \in EngineDatasets
    /\ engOut = NoResults

\* engine.run(raw_data): the result, or the exception that leaves run
EngineCall(name, r) ==
    /\ name \notin DOMAIN engOut
    /\ engOut' = (name :> r) @@ engOut
    /\ UNCHANGED engIn
    /\ UNCHANGED jobVars
    /\ UNCHANGED fnVars

CallMetrics == EngineCall("metrics", MetricsRun(engIn))

CallTechnical == EngineCall("technical", TechnicalRun(engIn))

CallRisk == EngineCall("risk", RiskRun(engIn))

CallValuation == EngineCall("valuation", ValuationRun(engIn))

EngineNext == CallMetrics \/ CallTechnical \/ CallRisk \/ CallValuation

EngineSpec == EngineInit /\ [][EngineNext]_vars

\* ── the engines of one Orchestrator called again and in any order on one
\* dataset; the report's date stamp is left out of the synthesis result ──
\* agent.run for the agent the Orchestrator keeps under this name; the
\* synthesis reads the dataset and the valuation result
agent_run(name, raw_data, out) ==
    CASE name = "metrics" -> MetricsRun(raw_data)
      [] name = "technical" -> TechnicalRun(raw_data)
      [] name = "risk" -> RiskRun(raw_data)
      [] name = "valuation" -> ValuationRun(raw_data)
      [] name = "synthesis" ->
            [raised |-> SynthesisRaises(raw_data, out["valuation"]), error |-> FALSE]

\* a run that keeps only the price records with a usable close in raw_data
AgentRun_in_place(name) ==
    /\ name = "synthesis" =>
          \A n \in {"metrics", "technical", "risk", "valuation"} :
              n \in DOMAIN engOut /\ ~engOut[n].raised
    /\ engOut' = (name :> agent_run(name, engIn, engOut)) @@ engOut
    /\ engIn' = [engIn EXCEPT !.prices =
                    Filtered(@, {i \in 1..Len(@) : Truthy(Get(@[i], "close"))})]
    /\ UNCHANGED jobVars
    /\ UNCHANGED fnVars

\* One call of an agent's run, a first or a later one: the result replaces
\* the one kept under the name, the agent and raw_data are only read.  The
\* synthesis is called once the four results are there, as run_analysis does.
AgentRun(name) ==
    /\ name = "synthesis" =>
          \A n \in {"metrics", "technical", "risk", "valuation"} :
              n \in DOMAIN engOut /\ ~engOut[n].raised
    /\ engOut' = (name :> agent_run(name, engIn, engOut)) @@ engOut
    /\ UNCHANGED engIn
    /\ UNCHANGED jobVars
    /\ UNCHANGED fnVars

RerunNext ==
    \E name \in {"metrics", "technical", "risk", "valuation", "synthesis"} :
        AgentRun(name)

RerunSpec == EngineInit /\ [][RerunNext]_vars

\* ------------------------------------------------------------------------
\* Valuation specification: ValuationAgent.run on the fields it reads
\* ------------------------------------------------------------------------
ValuationDatasets ==
    {MkRaw(Profile([companyName |-> Str, beta |-> b, marketCap |-> mc,
                    sharesOutstanding |-> sh]),
           <<>>,
           <<[interestExpense |-> ie, incomeBeforeTax |-> ibt,
              incomeTaxExpense |-> Num(2), weightedAverageShsOut |-> wsh]>>,
           <<[totalDebt |-> td]>>,
           cf) :
        b \in {NoneV, Num(0), Num(5), Num(10), Num(-30)},
        mc \in {NoneV, Num(0), Num(5), Num(100)},
        sh \in {NoneV, Num(10)},
        ie \in {NoneV, Num(0), Num(2)},
        ibt \in {NoneV, Num(10)},
        wsh \in {NoneV, Num(10)},
        td \in {NoneV, Num(0), Num(10), Num(11), Num(12), Num(50)},
        cf \in {<<>>, <<EmptyDict>>}
                  \cup {<<[freeCashFlow |-> Num(v)]>> : v \in {0, 10, -10}}}

ValuationInit ==
    /\ JobInit
    /\ FnIdle
    /\ engIn \in ValuationDatasets
    /\ engOut = NoResults

ValuationSpec == ValuationInit /\ [][CallValuation]_vars

\* ------------------------------------------------------------------------
\* Risk specification: RiskAssessmentAgent.run on price histories around the
\* 30-close minimum
\* ------------------------------------------------------------------------
RiskPrices(n, m, bad, dip) ==
    [i \in 1..n |->
        IF i <= m THEN bad
        ELSE IF i = dip THEN [GoodPrice EXCEPT !.close = Num(80)]
        ELSE GoodPrice]

\* 29 to 32 records, the first 0 to 2 of them without a usable close (None,
\* 0 or missing), a record that closed at 80 at position 5 or nowhere
RiskDatasets ==
    {MkRaw(p, RiskPrices(n, m, bad, dip), <<>>, <<>>, <<>>) :
        p \in {NoProfile}
                 \cup {Profile([companyName |-> Str, beta |-> b]) :
                          b \in OrNone({10, 12, 16})},
        n \in (MIN_RISK_CLOSES - 1)..(MIN_RISK_CLOSES + 2),
        m \in 0..2,
        bad \in {[GoodPrice EXCEPT !.close = NoneV],
                  [GoodPrice EXCEPT !.close = Num(0)],
                  [high |-> Num(101), low |-> Num(99)]},
        dip \in {0, 5}}

RiskInit ==
    /\ JobInit
    /\ FnIdle
    /\ engIn \in RiskDatasets
    /\ engOut = NoResults

RiskSpec == RiskInit /\ [][CallRisk]_vars

\* ── RiskAssessmentAgent.run on series of one repeated close, on both sides
\* of the 30-close and 60-return minimums, some records closing at 80 ──
FlatRiskDatasets ==
    {MkRaw(NoProfile,
           [i \in 1..n |-> IF i \in dips THEN [GoodPrice EXCEPT !.close = Num(80)]
                           ELSE [GoodPrice EXCEPT !.close = Num(c)]],
           <<>>, <<>>, <<>>) :
        n \in {MIN_VOLATILITY_RETURNS, MIN_VOLATILITY_RETURNS + 1, MIN_RISK_CLOSES,
               MIN_SHARPE_RETURNS + 1, MIN_SHARPE_RETURNS + 2},
        c \in {50, 100, 120},
        dips \in SUBSET {5, 10, 40}}

FlatRiskInit ==
    /\ JobInit
    /\ FnIdle
    /\ engIn \in FlatRiskDatasets
    /\ engOut = NoResults

FlatRiskSpec == FlatRiskInit /\ [][CallRisk]_vars

\* ------------------------------------------------------------------------
\* Function specifications: one function applied once to arguments drawn
\* from a bounded set.
\* ------------------------------------------------------------------------
FnInit(argSet) ==
    /\ JobInit
    /\ EngineIdle
    /\ args \in argSet
    /\ ret = <<>>

\* the call returns r
FnCall(r) ==
    /\ ret = <<>>
    /\ ret' = <<r>>
    /\ UNCHANGED args
    /\ UNCHANGED jobVars
    /\ UNCHANGED engVars

\* ── SynthesisReportingAgent._generate_recommendation ──
RiskRatings == {"low", "moderate", "high", "very_high", "unknown"}

RecommendationInit ==
    FnInit([current_price : {NoneV, Str, Num(0), Num(100)},
            dcf_value : {NoneV, Str}
                        \cup {Num(v) : v \in {70, 80, 90, 95, 100, 105, 110, 120, 130}},
            risk_rating : RiskRatings,
            rsi : {NoneV, Num(20), Num(50), Num(80)},
            trend_signals : {<<>>, <<"bullish">>, <<"bearish">>,
                             <<"bullish", "bearish", "bullish">>}])

CallGenerateRecommendation ==
    FnCall(recommendation_result(args.current_price, args.dcf_value,
                                 args.risk_rating, args.rsi, args.trend_signals))

RecommendationSpec == RecommendationInit /\ [][CallGenerateRecommendation]_vars

\* ── RiskAssessmentAgent._risk_rating on two inputs that differ in one
\* argument ──
RatingVols == {1500, 1501, 3000, 3001, 5000, 5001}

RatingDrawdowns == {1500, 1501, 3000, 3001, 5000, 5001}

RatingBetas == {10, 11, 15, 16}

RatingInputs ==
    [annual_vol : OrNone(RatingVols), max_dd_pct : OrNone(RatingDrawdowns),
     beta : OrNone(RatingBetas)]

RiskRatingInit ==
    FnInit({p \in {[lo |-> a, hi |-> [a EXCEPT ![f] = Num(x)]] :
                      a \in RatingInputs, f \in {"annual_vol", "max_dd_pct", "beta"},
                      x \in RatingVols \cup RatingBetas} :
              \E f \in {"annual_vol", "max_dd_pct", "beta"} :
                  /\ IsNumber(p.lo[f])
                  /\ p.hi[f].v > p.lo[f].v
                  /\ p.hi \in RatingInputs})

CallRiskRating ==
    FnCall([lo |-> risk_rating(args.lo.annual_vol, args.lo.max_dd_pct, args.lo.beta),
            hi |-> risk_rating(args.hi.annual_vol, args.hi.max_dd_pct, args.hi.beta)])

RiskRatingSpec == RiskRatingInit /\ [][CallRiskRating]_vars

\* ── RiskAssessmentAgent.compute_max_drawdown on short series of closes,
\* newest first ──
MaxClose == 4

DrawdownLen == 5

DrawdownInit == FnInit([closes : [1..DrawdownLen -> 0..MaxClose]])

CallMaxDrawdown == FnCall(compute_max_drawdown(args.closes))

DrawdownSpec == DrawdownInit /\ [][CallMaxDrawdown]_vars

\* ── TechnicalAnalysisAgent.compute_rsi on series that move by a constant
\* step, some days moving the other way ──
RsiMaxLen == 17

RsiMaxStep == 2

\* the chronological series of n closes from 100: each day moves by step,
\* the days of flips by -step
RsiChronological(n, step, flips) ==
    [i \in 1..n |->
        100 + step * ((i - 1) - 2 * Cardinality({d \in flips : d < i}))]

\* the reversed days are among the first, the seventh and the three around
\* the end of the first window
RsiSeries ==
    {Reversed(RsiChronological(n, step, flips)) :
        n \in RSI_PERIOD..RsiMaxLen, step \in (-RsiMaxStep)..RsiMaxStep,
        flips \in SUBSET {1, 7, RSI_PERIOD, RSI_PERIOD + 1, RSI_PERIOD + 2}}

RsiInit == FnInit([closes : RsiSeries])

CallComputeRsi == FnCall(compute_rsi(args.closes))

RsiSpec == RsiInit /\ [][CallComputeRsi]_vars

\* ── _sma(closes, 20) and compute_bollinger_bands on series of one
\* repeated close, the newest closes raised ──
BbMaxClose == 4

BbMaxBump == 2

BbMaxBumped == 3

\* n closes of c, the newest j of them c + bump
BbCloses(n, c, j, bump) == [i \in 1..n |-> IF i <= j THEN c + bump ELSE c]

\* the repeated close is 0, small or 100; a series of zeros is not raised
BbSeries ==
    {BbCloses(n, c, IF c = 0 THEN 0 ELSE j, bump) :
        n \in (BB_PERIOD - 1)..(BB_PERIOD + 1),
        c \in (0..BbMaxClose) \cup {100},
        j \in 0..BbMaxBumped, bump \in 0..BbMaxBump}

BollingerInit == FnInit([closes : BbSeries])

\* the two indicators as run computes them from the same closes
CallBollinger ==
    FnCall([sma_20 |-> sma(args.closes, BB_PERIOD),
            bollinger |-> compute_bollinger_bands(args.closes)])

BollingerSpec == BollingerInit /\ [][CallBollinger]_vars

\* ── FinancialMetricsAgent._safe_divide on None, a text and small
\* rationals ──
MetricMaxAbs == 3

SafeDivideInit ==
    FnInit([numerator : {NoneV, Str}
                        \cup {Num(Rat(i, d)) : i \in (-MetricMaxAbs)..MetricMaxAbs,
                                               d \in {1, 2}},
            denominator : {NoneV, Str}
                          \cup {Num(Rat(i, d)) : i \in (-MetricMaxAbs)..MetricMaxAbs,
                                                 d \in {1, 2}}])

CallSafeDivide == FnCall(safe_divide(args.numerator, args.denominator))

SafeDivideSpec == SafeDivideInit /\ [][CallSafeDivide]_vars

\* ── FinancialMetricsAgent.run on one or two income statements and a
\* balance sheet; with a close of 24 no ratio of these EPS values falls on a
\* rounding tie, where the float of the code and the exact quotient differ ──
MetricsDatasets ==
    {MkRaw(NoProfile, <<[close |-> price]>>,
           SubSeq(<<[eps |-> eps0, operatingIncome |-> Num(10),
                     incomeTaxExpense |-> tax, incomeBeforeTax |-> ibt],
                    [eps |-> eps1]>>, 1, n),
           <<[totalStockholdersEquity |-> equity, totalDebt |-> Num(10),
              cashAndCashEquivalents |-> NoneV]>>,
           <<>>) :
        price \in OrNone({0, 24}),
        n \in 0..2,
        eps0 \in OrNone((-MetricMaxAbs)..MetricMaxAbs),
        eps1 \in OrNone((-MetricMaxAbs)..MetricMaxAbs),
        tax \in OrNone({0, 2, -2}),
        ibt \in OrNone({0, 10, -10}),
        equity \in OrNone({0, 50})}

MetricsInit ==
    /\ JobInit
    /\ FnIdle
    /\ engIn \in MetricsDatasets
    /\ engOut = NoResults

MetricsSpec == MetricsInit /\ [][CallMetrics]_vars

\* ── compute_macd around its three lengths: 12 and 26 closes for the two
\* EMAs, 35 closes for nine points of the MACD series ──
MacdMaxBump == 2

\* n closes of c, the newest j of them c + bump
MacdInit ==
    FnInit([closes :
              {[i \in 1..n |-> IF i <= j THEN <<c + bump, 1>> ELSE <<c, 1>>] :
                  n \in {11, 12, 25, 26, 27, 34, 35, 36}, c \in {50, 100},
                  j \in 0..2,
                  bump \in ((-MacdMaxBump)..MacdMaxBump) \ {0}}])

CallComputeMacd == FnCall(compute_macd(args.closes))

MacdSpec == MacdInit /\ [][CallComputeMacd]_vars

\* ------------------------------------------------------------------------
\* Properties
\* ------------------------------------------------------------------------
NonTerminal == Statuses \ Terminal

AllowedSteps ==
    {<<"pending", "gathering_data">>, <<"gathering_data", "analyzing">>,
     <<"analyzing", "generating_report">>, <<"generating_report", "complete">>}
    \cup {<<s, "failed">> : s \in NonTerminal}

\* C1: during a run the persisted status changes only along
\* pending -> gathering_data -> analyzing -> generating_report -> complete
\* or from a non-terminal status to failed.
C1_OnlyAllowedSteps ==
    [][\A j \in JobIds :
          (status[j] # NoRow /\ status'[j] # status[j])
              => <<status[j], status'[j]>> \in AllowedSteps]_vars

\* C2: a job whose persisted status is failed has no persisted report.
C2_FailedHasNoReport ==
    \A j \in JobIds : status[j] = "failed" => reports[j] = 0

\* C3: a run whose fetched dataset has a profile and whose crud calls all
\* return has called the five engines and synthesis, persisted the report
\* and ended with status complete.
C3_ProfileRunCompletes ==
    \A j \in JobIds :
        (/\ pc[j] = "done"
         /\ Len(raw[j]) = 1
         /\ ~ProfileMissing(raw[j][1])
         /\ ~sinkFailed[j])
        => /\ invoked[j] = Engines \o <<"synthesis">>
           /\ reports[j] = 1
           /\ status[j] = "complete"

\* C4: when the fetched dataset has no profile, no engine is called, analyzing
\* is never persisted, no report is created and the run ends with the
\* statuses pending, gathering_data, failed.
C4_NoProfileFails ==
    \A j \in JobIds :
        (Len(raw[j]) = 1 /\ ProfileMissing(raw[j][1]))
        => /\ invoked[j] = <<>>
           /\ reports[j] = 0
           /\ \A i \in 1..Len(hist[j]) : hist[j][i] # "analyzing"
           /\ pc[j] = "done" => hist[j] = <<"pending", "gathering_data", "failed">>

\* C5: the status of a phase is committed before the first operation of the
\* phase: while the fetch, an engine, or synthesis/chart/report creation is
\* the next operation, the persisted status names that phase, and no
\* operation of a phase has happened without its status in the history.
InHist(j, s) == \E i \in 1..Len(hist[j]) : hist[j][i] = s

C5_StatusBeforePhase ==
    \A j \in JobIds :
        /\ pc[j] = "fetch" => status[j] = "gathering_data"
        /\ pc[j] \in {"run_metrics", "run_technical", "run_risk", "run_sentiment",
                      "run_valuation"} => status[j] = "analyzing"
        /\ pc[j] \in {"synthesis", "build_chart", "create_report"}
              => status[j] = "generating_report"
        /\ Len(raw[j]) = 1 => InHist(j, "gathering_data")
        /\ Len(invoked[j]) >= 1 => InHist(j, "analyzing")
        /\ (Len(invoked[j]) = 6 \/ reports[j] > 0) => InHist(j, "generating_report")

C5_Witness ==
    \E j \in JobIds :
        /\ pc[j] = "create_report"
        /\ status[j] = "generating_report"
        /\ invoked[j] = Engines \o <<"synthesis">>

\* C6: a background run that has ended leaves its job in complete or failed.
C6_RunEndsTerminal ==
    \A j \in JobIds :
        (pc[j] = "done" /\ status[j] # NoRow) => status[j] \in Terminal

\* C7: once the persisted status is complete or failed, no later step
\* changes it.
C7_TerminalIsFinal ==
    [][\A j \in JobIds : status[j] \in Terminal => status'[j] = status[j]]_vars

\* C8: a job whose status is complete has exactly one report, and no job
\* ever has more than one.
C8_CompleteHasOneReport ==
    \A j \in JobIds :
        /\ reports[j] <= 1
        /\ status[j] = "complete" => reports[j] = 1

C8_Witness ==
    \E j \in JobIds : status[j] = "complete" /\ reports[j] = 1 /\ pc[j] = "done"

\* C9: on datasets with missing, empty, None or zero fields, no engine's run
\* raises.
C9_EnginesNeverRaise ==
    \A e \in DOMAIN engOut : ~engOut[e].raised

\* C10: a job id has at most one background task over its lifetime, exactly
\* one once start_analysis has accepted it, and so at most one run.
C10_OneRunPerJob ==
    \A j \in JobIds :
        /\ runs[j] + tasks[j] <= 1
        /\ j \in accepted => runs[j] + tasks[j] = 1
        /\ pc[j] # "idle" => runs[j] = 1

C10_Witness ==
    \E j \in JobIds, i \in JobIds :
        /\ i # j
        /\ runs[j] = 1 /\ pc[j] = "done"
        /\ runs[i] = 1 /\ pc[i] \notin {"idle", "done"}

\* C11: with a current price p > 0 and an intrinsic value v that are both
\* numbers and gap = (v - p) / p, _generate_recommendation returns strong buy
\* when gap > 20%, buy when 5% < gap <= 20%, strong sell when gap < -20%,
\* sell when -20% <= gap < -5%, and hold otherwise.
C11_GapDecidesRecommendation ==
    (/\ Len(ret) = 1
     /\ IsNumber(args.current_price) /\ IsNumber(args.dcf_value)
     /\ args.current_price.v > 0)
    => LET p == args.current_price.v
           gap100 == (args.dcf_value.v - p) * 100
       IN  /\ ret[1].raised = ""
           /\ ret[1].rec = IF gap100 > 20 * p THEN "strong buy"
                           ELSE IF gap100 > 5 * p THEN "buy"
                           ELSE IF gap100 < -20 * p THEN "strong sell"
                           ELSE IF gap100 < -5 * p THEN "sell"
                           ELSE "hold"

\* C12: when the current price or the intrinsic value is not a number, the
\* call returns hold with the insufficient-data rationale, whatever the risk
\* rating, the RSI and the trend signals are.
C12_UndefinedGivesHold ==
    (Len(ret) = 1 /\ (~IsNumber(args.current_price) \/ ~IsNumber(args.dcf_value)))
    => /\ ret[1].raised = ""
       /\ ret[1].rec = "hold"
       /\ ret[1].rationale = INSUFFICIENT_DATA

C12_Witness ==
    /\ Len(ret) = 1
    /\ IsNumber(args.current_price) /\ args.current_price.v = 100
    /\ IsNone(args.dcf_value)
    /\ args.risk_rating = "very_high"
    /\ args.rsi = Num(80)
    /\ args.trend_signals = <<"bearish">>
    /\ ret[1].rec = "hold"

\* C13: for every valuation gap, risk rating, RSI and trend signals, and on
\* the insufficient-data path, the call returns a confidence within [10, 95].
C13_ConfidenceClamped ==
    (/\ Len(ret) = 1
     /\ ~(IsNumber(args.current_price) /\ args.current_price.v = 0))
    => /\ ret[1].raised = ""
       /\ ret[1].confidence >= 10
       /\ ret[1].confidence <= 95

\* C14: when the WACC is computed, the cash-flow projection is valid and the
\* WACC is at most the perpetual growth rate (equal included), run returns an
\* undefined intrinsic value with the WACC/growth error and computes no
\* terminal value; a terminal value is only ever computed with a positive
\* denominator wacc - g.
C14_WaccGuard ==
    "valuation" \in DOMAIN engOut =>
        LET r == engOut["valuation"]
            wacc == calculate_wacc(engIn)
        IN  /\ (/\ wacc.k = "rat"
                /\ project_free_cash_flow(engIn.cash_flow).ok
                /\ RLeq(wacc.r, DEFAULT_PERPETUAL_GROWTH_RATE))
               => /\ ~r.raised
                  /\ ~r.defined
                  /\ r.error = "WACC is less than or equal to perpetual growth rate."
                  /\ r.terminal.k = "none"
            /\ r.terminal.k = "rat" => r.terminal.r[1] > 0

C14_Witness ==
    /\ "valuation" \in DOMAIN engOut
    /\ calculate_wacc(engIn).k = "rat"
    /\ RLeq(calculate_wacc(engIn).r, DEFAULT_PERPETUAL_GROWTH_RATE)
    /\ RLeq(DEFAULT_PERPETUAL_GROWTH_RATE, calculate_wacc(engIn).r)
    /\ project_free_cash_flow(engIn.cash_flow).ok
    /\ engOut["valuation"].error = "WACC is less than or equal to perpetual growth rate."

\* C15: run returns either a success (value, wacc and latest_fcf defined, no
\* error) or a failure (value undefined, neither wacc nor latest_fcf, one
\* error string), and the four failure modes carry four different strings.
C15_ResultShape ==
    "valuation" \in DOMAIN engOut =>
        LET r == engOut["valuation"]
            wacc == calculate_wacc(engIn)
            fcf == project_free_cash_flow(engIn.cash_flow)
            noWacc == wacc.k = "none"
            noFcf == ~noWacc /\ ~fcf.ok
            lowWacc == ~noWacc /\ fcf.ok /\ RLeq(wacc.r, DEFAULT_PERPETUAL_GROWTH_RATE)
            noShares == /\ ~noWacc /\ fcf.ok
                        /\ ~RLeq(wacc.r, DEFAULT_PERPETUAL_GROWTH_RATE)
                        /\ ~Truthy(shares_outstanding(engIn))
        IN  /\ ~r.raised
            /\ r.defined => (r.has_wacc /\ r.has_latest_fcf /\ r.error = "")
            /\ ~r.defined => (~r.has_wacc /\ ~r.has_latest_fcf /\ r.error # "")
            /\ r.defined <=> ~(noWacc \/ noFcf \/ lowWacc \/ noShares)
            /\ r.error = "Could not calculate WACC." <=> noWacc
            /\ r.error = "Could not project Free Cash Flow." <=> noFcf
            /\ r.error = "WACC is less than or equal to perpetual growth rate." <=> lowWacc
            /\ r.error = "Shares outstanding not available." <=> noShares

C15_Witness ==
    /\ "valuation" \in DOMAIN engOut
    /\ engOut["valuation"].error = "Shares outstanding not available."
    /\ engOut["valuation"].terminal.k = "rat"
    /\ ~engOut["valuation"].has_wacc

\* C16: with low < moderate < high < very_high, raising one of annual
\* volatility, max-drawdown percentage or beta while the other two stay fixed
\* never lowers the rating.
C16_RatingMonotone ==
    Len(ret) = 1 =>
        LET rank == [r \in {"low", "moderate", "high", "very_high"} |->
                        CASE r = "low" -> 1 [] r = "moderate" -> 2
                          [] r = "high" -> 3 [] r = "very_high" -> 4]
        IN  /\ ret[1].lo \in DOMAIN rank
            /\ ret[1].hi \in DOMAIN rank
            /\ rank[ret[1].lo] <= rank[ret[1].hi]

C16_Witness ==
    /\ Len(ret) = 1
    /\ args.lo.annual_vol = Num(3001) /\ args.hi.annual_vol = Num(5001)
    /\ args.lo.max_dd_pct = args.hi.max_dd_pct
    /\ args.lo.beta = args.hi.beta
    /\ ret[1].lo = "moderate"
    /\ ret[1].hi = "high"

\* C17: run returns the error marker with risk_rating unknown exactly when
\* fewer than 30 records have a usable close; with 30 or more it returns one
\* of low, moderate, high, very_high.
C17_UnknownBelowThirty ==
    "risk" \in DOMAIN engOut =>
        LET r == engOut["risk"]
            valid == Cardinality({i \in 1..Len(engIn.prices) :
                                     Truthy(Get(engIn.prices[i], "close"))})
        IN  /\ ~r.raised
            /\ r.error <=> valid < 30
            /\ r.risk_rating = "unknown" <=> valid < 30
            /\ valid >= 30 => r.risk_rating \in {"low", "moderate", "high", "very_high"}

C17_Witness ==
    /\ "risk" \in DOMAIN engOut
    /\ Len(engIn.prices) = 31
    /\ Len(Closes(engIn.prices)) = 30
    /\ engOut["risk"].risk_rating = "very_high"

\* C18: for at least 5 non-negative closes compute_max_drawdown returns,
\* without raising, a drawdown between 0 and 1 (0% to 100%), and 0 for a
\* series that strictly increases in time.
C18_DrawdownInRange ==
    (Len(ret) = 1 /\ Len(args.closes) >= 5
     /\ \A i \in 1..Len(args.closes) : args.closes[i] >= 0)
    => /\ ~ret[1].raised
       /\ IsNumber(ret[1].max_drawdown)
       /\ ret[1].max_drawdown.v >= 0 /\ ret[1].max_drawdown.v <= 10000
       /\ IsNumber(ret[1].max_drawdown_pct)
       /\ ret[1].max_drawdown_pct.v >= 0 /\ ret[1].max_drawdown_pct.v <= 10000
       /\ (\A i \in 1..(Len(args.closes) - 1) : args.closes[i] > args.closes[i + 1])
             => ret[1].max_drawdown.v = 0

\* C19: for at least 15 closes compute_rsi returns a value between 0 and
\* 100; it is 100 when the series strictly increases in time and 0 when it
\* strictly decreases.
C19_RsiInRange ==
    (Len(ret) = 1 /\ Len(args.closes) >= 15)
    => LET closes == args.closes
           pairs == 1..(Len(closes) - 1)
       IN  /\ IsNumber(ret[1])
           /\ ret[1].v >= 0 /\ ret[1].v <= 10000
           /\ (\A i \in pairs : closes[i] > closes[i + 1]) => ret[1].v = 10000
           /\ (\A i \in pairs : closes[i] < closes[i + 1]) => ret[1].v = 0

C19_Witness ==
    /\ Len(ret) = 1
    /\ Len(args.closes) = 16
    /\ \A i \in 1..15 : args.closes[i] < args.closes[i + 1]
    /\ ret[1] = Num(0)

\* C20: for 20 equal positive closes c, SMA(20) is c, the Bollinger middle,
\* upper and lower bands are all c, and the bandwidth is 0.
C20_FlatSeriesBands ==
    (/\ Len(ret) = 1
     /\ Len(args.closes) = 20
     /\ args.closes[1] > 0
     /\ \A i \in 1..20 : args.closes[i] = args.closes[1])
    => LET c == args.closes[1]
           bb == ret[1].bollinger
       IN  /\ ret[1].sma_20 = Num(<<c, 1>>)
           /\ bb.bb_middle = Num(100 * c)
           /\ bb.bb_upper = Num(100 * c)
           /\ bb.bb_lower = Num(100 * c)
           /\ bb.bb_bandwidth = Num(0)

\* C21 as stated: for 20 identical closes the risk engine reports a
\* volatility of 0 and undefined Sharpe and Sortino ratios.
C21_FlatTwentyReportsZero ==
    (/\ "risk" \in DOMAIN engOut
     /\ Len(engIn.prices) = 20
     /\ \A i \in 1..20 : engIn.prices[i] = engIn.prices[1])
    => /\ engOut["risk"].annual_volatility = Num(0)
       /\ engOut["risk"].sharpe_none
       /\ engOut["risk"].sortino_none

\* C21, amended: for identical closes the risk engine returns its
\* insufficient-data marker (rating unknown, no volatility, Sharpe or
\* Sortino) under 30 closes, and from 30 closes on a volatility of 0 with
\* undefined Sharpe and Sortino ratios.
C21_FlatSeriesRisk ==
    (/\ "risk" \in DOMAIN engOut
     /\ \A i \in 1..Len(engIn.prices) : engIn.prices[i] = engIn.prices[1])
    => LET r == engOut["risk"]
       IN  /\ ~r.raised
           /\ r.sharpe_none /\ r.sortino_none
           /\ Len(engIn.prices) < 30
                 => r.error /\ r.risk_rating = "unknown" /\ IsNone(r.annual_volatility)
           /\ Len(engIn.prices) >= 30
                 => ~r.error /\ r.annual_volatility = Num(0)

C21_Witness ==
    /\ "risk" \in DOMAIN engOut
    /\ Len(engIn.prices) = 61
    /\ \A i \in 1..61 : engIn.prices[i] = engIn.prices[1]
    /\ engOut["risk"].annual_volatility = Num(0)
    /\ engOut["risk"].sharpe_none

\* C22: _safe_divide(n, d) returns None, and does not raise, when n is
\* None, d is None or d is 0, whatever number the other operand is;
\* otherwise it returns n / d.
C22_SafeDivide ==
    (/\ Len(ret) = 1
     /\ ~(args.numerator.k = "str")
     /\ ~(args.denominator.k = "str"))
    => LET n == args.numerator
           d == args.denominator
       IN  IF IsNone(n) \/ IsNone(d) \/ d.v[1] = 0
           THEN ret[1] = NoneV
           ELSE /\ IsNumber(ret[1])
                /\ RMul(ret[1].v, d.v) = n.v

C22_Witness ==
    /\ Len(ret) = 1
    /\ args.numerator = Num(<<3, 2>>)
    /\ args.denominator = Num(<<0, 1>>)
    /\ ret[1] = NoneV

\* C23: _growth_rate(current, previous) is (current - previous) /
\* |previous|, None when either is None or previous is 0: eps_growth for an
\* EPS of 2 after an EPS of 1 is 1, and the growth has the sign of
\* current - previous also for a negative previous value.
C23_GrowthRate ==
    "metrics" \in DOMAIN engOut =>
        LET income == engIn.income_statement
            current == IF Len(income) >= 1 THEN income[1].eps ELSE NoneV
            previous == IF Len(income) >= 2 THEN income[2].eps ELSE NoneV
            growth == engOut["metrics"].growth.eps_growth
        IN  IF IsNone(current) \/ IsNone(previous) \/ previous.v = 0
            THEN growth = NoneV
            ELSE /\ IsNumber(growth)
                 /\ growth.v[1] * Abs(previous.v) = (current.v - previous.v) * growth.v[2]
                 /\ growth.v[1] > 0 <=> current.v > previous.v
                 /\ growth.v[1] < 0 <=> current.v < previous.v
                 /\ (current.v = 2 /\ previous.v = 1) => growth.v = <<1, 1>>

C23_Witness ==
    /\ "metrics" \in DOMAIN engOut
    /\ Len(engIn.income_statement) = 2
    /\ engIn.income_statement[1].eps = Num(-1)
    /\ engIn.income_statement[2].eps = Num(-3)
    /\ engOut["metrics"].growth.eps_growth = Num(<<2, 3>>)

\* C27: peg_ratio is defined only when the EPS growth is strictly positive
\* and the P/E is defined; for a zero, negative or undefined EPS growth it
\* is undefined.
C27_PegNeedsPositiveGrowth ==
    "metrics" \in DOMAIN engOut =>
        LET growth == engOut["metrics"].growth.eps_growth
            valuation == engOut["metrics"].valuation
        IN  IsNumber(valuation.peg_ratio)
                => /\ IsNumber(growth)
                   /\ growth.v[1] > 0
                   /\ IsNumber(valuation.pe_ratio)

\* C29: in the ROIC the effective tax rate is tax_expense /
\* income_before_tax whenever income_before_tax is a non-zero number, for
\* every tax expense, 0 included: the ROIC reported is the operating income
\* taxed at that rate over the invested capital.
C29_EffectiveTaxRate ==
    ("metrics" \in DOMAIN engOut /\ Len(engIn.income_statement) >= 1) =>
        LET income == engIn.income_statement[1]
            balance == engIn.balance_sheet[1]
            tax == income.incomeTaxExpense.v
        IN  (/\ IsNumber(income.incomeTaxExpense)
             /\ IsNumber(income.incomeBeforeTax)
             /\ income.incomeBeforeTax.v # 0
             /\ IsNumber(balance.totalStockholdersEquity)
             /\ balance.totalStockholdersEquity.v # 0)
            => engOut["metrics"].profitability.roic
                 = Num(RoundSigned(
                       RDiv(RMul(<<income.operatingIncome.v, 1>>,
                                 RSub(<<1, 1>>, Rat(tax, income.incomeBeforeTax.v))),
                            <<balance.totalStockholdersEquity.v + balance.totalDebt.v, 1>>),
                       4))

\* C26: compute_macd returns macd_line, signal_line and macd_histogram
\* either all defined or all undefined
C26_MacdAllOrNone ==
    ret # <<>> /\ "macd_line" \in DOMAIN ret[1] =>
        \/ /\ IsNone(ret[1].macd_line)
           /\ IsNone(ret[1].signal_line)
           /\ IsNone(ret[1].macd_histogram)
        \/ /\ IsNumber(ret[1].macd_line)
           /\ IsNumber(ret[1].signal_line)
           /\ IsNumber(ret[1].macd_histogram)

\* C30: _calculate_wacc returns None exactly when beta, market cap, total
\* debt or interest expense is missing or market_cap + total_debt is zero;
\* with the four values present and a non-zero total capital it is defined
C30_WaccDefinedness ==
    "valuation" \in DOMAIN engOut =>
        LET profile == ProfileOrEmpty(engIn)
            beta == Get(profile, "beta")
            market_cap == PyOr(Get(profile, "marketCap"), Get(profile, "mktCap"))
            total_debt == Get(FirstOrEmpty(engIn.balance_sheet), "totalDebt")
            interest_expense ==
                Get(FirstOrEmpty(engIn.income_statement), "interestExpense")
            missing == IsNone(beta) \/ IsNone(market_cap)
                       \/ IsNone(total_debt) \/ IsNone(interest_expense)
        IN  /\ calculate_wacc(engIn).k = "none"
                <=> (missing \/ market_cap.v + total_debt.v = 0)
            /\ engOut["valuation"].error = "Could not calculate WACC."
                <=> calculate_wacc(engIn).k = "none"

\* C28: with a current price above 0, an intrinsic value, an RSI and trend
\* signals held fixed, _generate_recommendation returns a higher confidence
\* for the rating low than for moderate, and a lower one for high and for
\* very_high than for moderate
C28_RatingMovesConfidence ==
    (/\ Len(ret) = 1
     /\ IsNumber(args.current_price) /\ IsNumber(args.dcf_value)
     /\ args.current_price.v > 0)
    => LET moderate == recommendation_result(args.current_price, args.dcf_value,
                                             "moderate", args.rsi,
                                             args.trend_signals)
       IN  /\ ret[1].raised = ""
           /\ moderate.raised = ""
           /\ args.risk_rating = "low" => ret[1].confidence > moderate.confidence
           /\ args.risk_rating \in {"high", "very_high"}
                  => ret[1].confidence < moderate.confidence

\* C25: of the POST /api/v1/analysis/ requests of one free-tier user within
\* one day only the first three create a job and schedule a background run;
\* a further request is rejected and leaves no row, no task and no run
C25_FreeTierLimit ==
    /\ Cardinality({j \in JobIds : status[j] # NoRow}) <= 3
    /\ Cardinality(accepted) <= 3
    /\ \A j \in JobIds : j > 3 => tasks[j] = 0 /\ runs[j] = 0

====
